---- MODULE Spec2Model ----
(***************************************************************************)
(* Model of jupyterlab/labextensions.py: the `jupyter labextension`        *)
(* command line front end.  One run of the program is one behaviour: the   *)
(* command line is fixed in Init, LabExtensionApp.start dispatches to the  *)
(* selected sub-application, and the sub-application's start() makes its   *)
(* calls to the functions imported from .commands one at a time.  Every    *)
(* such call is an external call: it either returns (None, or a boolean    *)
(* "changed" for unlink_package / uninstall_extension) or raises an        *)
(* Exception.  The calls made so far are kept in the log `calls`.          *)
(***************************************************************************)
EXTENDS Integers, Sequences, FiniteSets, TLC

\* ---------------------------------------------------------------- bounds
MaxArgs == 2                       \* longest positional identifier list

Ids == {"extA", "extB"}            \* identifiers given on the command line
Cwd == "cwd"                       \* the value returned by os.getcwd()
AppDirs == {"", "appdir"}          \* values of the app_dir trait
NoSubcommand == "none"             \* command line without a subcommand
NoArg == "-"                       \* calls that take no identifier

\* ------------------------------------------------------------ program data
\* keys of LabExtensionApp.subcommands
subcommands_without_link ==
    {"install", "uninstall", "list", "unlink", "enable", "disable"}

subcommands ==
    {"install", "uninstall", "list", "link", "unlink", "enable", "disable"}

\* the characters of each key, as positions in the alphabet (Python compares
\* strings character by character)
Spelling ==
    [install   |-> <<9, 14, 19, 20, 1, 12, 12>>,
     uninstall |-> <<21, 14, 9, 14, 19, 20, 1, 12, 12>>,
     list      |-> <<12, 9, 19, 20>>,
     link      |-> <<12, 9, 14, 11>>,
     unlink    |-> <<21, 14, 12, 9, 14, 11>>,
     enable    |-> <<5, 14, 1, 2, 12, 5>>,
     disable   |-> <<4, 9, 19, 1, 2, 12, 5>>]

Min(a, b) == IF a <= b THEN a ELSE b

\* s < t for Python strings
StrLess(s, t) ==
    LET a == Spelling[s]
        b == Spelling[t]
        n == Min(Len(a), Len(b))
        Diff == {i \in 1..n : a[i] # b[i]}
    IN  IF Diff = {}
        THEN Len(a) < Len(b)
        ELSE LET d == CHOOSE i \in Diff : \A j \in Diff : i <= j
             IN  a[d] < b[d]

\* sorted(iterable): ascending list of the elements
RECURSIVE sorted(_)
sorted(S) ==
    IF S = {} THEN <<>>
    ELSE LET m == CHOOSE x \in S : \A y \in S \ {x} : StrLess(x, y)
         IN  <<m>> \o sorted(S \ {m})

\* class defaults of the should_build trait
should_build_default(cmd) ==
    cmd \in {"install", "link", "unlink", "uninstall"}

\* configuration of the should_build trait: left alone, or set; the
\* --no-build flag is the setting {'BaseExtensionApp': {'should_build': False}}
BuildConfigs == {"unset", "False", "True"}

no_build_ignored(cmd, cfg) ==
    IF cfg = "True" THEN TRUE ELSE should_build_default(cmd)

load_should_build(cmd, cfg) ==
    IF cfg = "unset" THEN should_build_default(cmd) ELSE cfg = "True"

\* self.extra_args or [os.getcwd()]
or_cwd_identity(args) == args

or_cwd(args) == IF args = <<>> THEN <<Cwd>> ELSE args

\* any(list)
any(l) == \E j \in DOMAIN l : l[j] = "True"

ArgLists == UNION {[1..n -> Ids] : n \in 0..MaxArgs}

NoError == [raised_by |-> "none", call |-> 0]

\* ------------------------------------------------------------------ state
VARIABLES
    argv,          \* positional identifiers of the command line
    subcommand,    \* the subcommand of the command line, or NoSubcommand
    build_config,  \* how the command line configures should_build
    app_dir,       \* BaseExtensionApp.app_dir
    should_build,  \* BaseExtensionApp.should_build
    should_clean,  \* BaseExtensionApp.should_clean
    extra_args,    \* self.extra_args
    pc,            \* position of the run
    results,       \* values collected so far by the running list comprehension
    rolled,        \* iterations completed by the rollback loop
    ans,           \* local `ans` of unlink / uninstall
    caught,        \* local `e` of the except clause
    calls,         \* log of the calls made to .commands
    error,         \* exception that ended the run
    exit_code,     \* process exit status (-1 while running)
    exit_msg       \* argument of sys.exit

vars == <<argv, subcommand, build_config, app_dir, should_build, should_clean,
          extra_args, pc, results, rolled, ans, caught, calls, error,
          exit_code, exit_msg>>

inputs == <<argv, subcommand, build_config, app_dir, should_build,
            should_clean>>

Init ==
    /\ subcommand \in subcommands \cup {NoSubcommand}
    /\ argv \in ArgLists
    /\ build_config \in BuildConfigs
    /\ app_dir \in AppDirs
    /\ should_clean \in BOOLEAN
    /\ should_build = load_should_build(subcommand, build_config)
    /\ extra_args = argv
    /\ pc = "launch"
    /\ results = <<>>
    /\ rolled = 0
    /\ ans = FALSE
    /\ caught = NoError
    /\ calls = <<>>
    /\ error = NoError
    /\ exit_code = -1
    /\ exit_msg = <<>>

\* ---------------------------------------------------------------- helpers
\* the record of one call, with what it gave back
Call(fn, arg, res) ==
    [fn |-> fn, arg |-> arg, app_dir |-> app_dir,
     clean_staging |-> (fn = "build" /\ should_clean), result |-> res]

\* the exception raised by the call being logged now
Raised(fn) == [raised_by |-> fn, call |-> Len(calls) + 1]

\* an exception leaves start(): the process ends with it
Propagate(e) ==
    /\ pc' = "failed"
    /\ error' = e
    /\ exit_code' = 1

\* start() returns
Return ==
    /\ pc' = "done"
    /\ exit_code' = 0
    /\ UNCHANGED error

Pending == Len(results) < Len(extra_args)

NextArg == extra_args[Len(results) + 1]

\* ------------------------------------------------- LabExtensionApp.start
\* super().start() runs the selected sub-application
LabExtensionApp_start_subapp ==
    /\ pc = "launch"
    /\ subcommand # NoSubcommand
    /\ pc' = "start"
    /\ UNCHANGED <<inputs, extra_args, results, rolled, ans, caught, calls,
                   error, exit_code, exit_msg>>

\* no sub-application: sys.exit("Please supply at least one subcommand: ...")
LabExtensionApp_start_exit ==
    /\ pc = "launch"
    /\ subcommand = NoSubcommand
    /\ exit_msg' = sorted(subcommands)
    /\ pc' = "failed"
    /\ exit_code' = 1
    /\ UNCHANGED <<inputs, extra_args, results, rolled, ans, caught, calls,
                   error>>

\* ------------------------------------------ InstallLabExtensionApp.start
Install_args ==
    /\ pc = "start"
    /\ subcommand = "install"
    /\ extra_args' = or_cwd(extra_args)
    /\ pc' = "loop"
    /\ UNCHANGED <<inputs, results, rolled, ans, caught, calls, error,
                   exit_code, exit_msg>>

\* a comprehension whose failure is handled like a build failure
Install_call_rollback ==
    /\ pc = "loop"
    /\ subcommand = "install"
    /\ Pending
    /\ \E res \in {"None", "raise"} :
          /\ calls' = Append(calls, Call("install_extension", NextArg, res))
          /\ IF res = "raise"
             THEN /\ caught' = Raised("install_extension")
                  /\ pc' = "rollback"
                  /\ UNCHANGED <<results, error, exit_code>>
             ELSE /\ results' = Append(results, res)
                  /\ UNCHANGED <<pc, error, exit_code, caught>>
    /\ UNCHANGED <<inputs, extra_args, rolled, ans, exit_msg>>

\* one element of [install_extension(arg, ...) for arg in self.extra_args]
Install_call ==
    /\ pc = "loop"
    /\ subcommand = "install"
    /\ Pending
    /\ \E res \in {"None", "raise"} :
          /\ calls' = Append(calls, Call("install_extension", NextArg, res))
          /\ IF res = "raise"
             THEN /\ Propagate(Raised("install_extension"))
                  /\ UNCHANGED results
             ELSE /\ results' = Append(results, res)
                  /\ UNCHANGED <<pc, error, exit_code>>
    /\ UNCHANGED <<inputs, extra_args, rolled, ans, caught, exit_msg>>

\* if self.should_build:
Install_if_build ==
    /\ pc = "loop"
    /\ subcommand = "install"
    /\ ~Pending
    /\ IF should_build
       THEN /\ pc' = "build"
            /\ UNCHANGED <<error, exit_code>>
       ELSE Return
    /\ UNCHANGED <<inputs, extra_args, results, rolled, ans, caught, calls,
                   exit_msg>>

\* try: build(...)  except Exception as e:
Install_build ==
    /\ pc = "build"
    /\ subcommand = "install"
    /\ \E res \in {"None", "raise"} :
          /\ calls' = Append(calls, Call("build", NoArg, res))
          /\ IF res = "raise"
             THEN /\ caught' = Raised("build")
                  /\ pc' = "rollback"
                  /\ UNCHANGED <<error, exit_code>>
             ELSE /\ Return
                  /\ UNCHANGED caught
    /\ UNCHANGED <<inputs, extra_args, results, rolled, ans, exit_msg>>

\* a rollback loop that visits the identifiers last to first
Install_rollback_reversed ==
    /\ pc = "rollback"
    /\ subcommand = "install"
    /\ rolled < Len(extra_args)
    /\ \E res \in {"True", "False", "raise"} :
          /\ calls' = Append(calls, Call("uninstall_extension",
                                         extra_args[Len(extra_args) - rolled],
                                         res))
          /\ IF res = "raise"
             THEN /\ Propagate(Raised("uninstall_extension"))
                  /\ UNCHANGED rolled
             ELSE /\ rolled' = rolled + 1
                  /\ UNCHANGED <<pc, error, exit_code>>
    /\ UNCHANGED <<inputs, extra_args, results, ans, caught, exit_msg>>

\* one iteration of: for arg in self.extra_args: uninstall_extension(arg, ...)
Install_rollback ==
    /\ pc = "rollback"
    /\ subcommand = "install"
    /\ rolled < Len(extra_args)
    /\ \E res \in {"True", "False", "raise"} :
          /\ calls' = Append(calls, Call("uninstall_extension",
                                         extra_args[rolled + 1], res))
          /\ IF res = "raise"
             THEN /\ Propagate(Raised("uninstall_extension"))
                  /\ UNCHANGED rolled
             ELSE /\ rolled' = rolled + 1
                  /\ UNCHANGED <<pc, error, exit_code>>
    /\ UNCHANGED <<inputs, extra_args, results, ans, caught, exit_msg>>

\* a handler that ends by raising a new error in place of e
Install_reraise_other ==
    /\ pc = "rollback"
    /\ subcommand = "install"
    /\ rolled = Len(extra_args)
    /\ Propagate([raised_by |-> "start", call |-> 0])
    /\ UNCHANGED <<inputs, extra_args, results, rolled, ans, caught, calls,
                   exit_msg>>

\* raise e
Install_reraise ==
    /\ pc = "rollback"
    /\ subcommand = "install"
    /\ rolled = Len(extra_args)
    /\ Propagate(caught)
    /\ UNCHANGED <<inputs, extra_args, results, rolled, ans, caught, calls,
                   exit_msg>>

\* --------------------------------------------- LinkLabExtensionApp.start
Link_args ==
    /\ pc = "start"
    /\ subcommand = "link"
    /\ extra_args' = or_cwd(extra_args)
    /\ pc' = "loop"
    /\ UNCHANGED <<inputs, results, rolled, ans, caught, calls, error,
                   exit_code, exit_msg>>

\* one element of [link_package(arg, ...) for arg in self.extra_args]
Link_call ==
    /\ pc = "loop"
    /\ subcommand = "link"
    /\ Pending
    /\ \E res \in {"None", "raise"} :
          /\ calls' = Append(calls, Call("link_package", NextArg, res))
          /\ IF res = "raise"
             THEN /\ Propagate(Raised("link_package"))
                  /\ UNCHANGED results
             ELSE /\ results' = Append(results, res)
                  /\ UNCHANGED <<pc, error, exit_code>>
    /\ UNCHANGED <<inputs, extra_args, rolled, ans, caught, exit_msg>>

\* if self.should_build:
Link_if_build ==
    /\ pc = "loop"
    /\ subcommand = "link"
    /\ ~Pending
    /\ IF should_build
       THEN /\ pc' = "build"
            /\ UNCHANGED <<error, exit_code>>
       ELSE Return
    /\ UNCHANGED <<inputs, extra_args, results, rolled, ans, caught, calls,
                   exit_msg>>

\* try: build(...)  except Exception as e:
Link_build ==
    /\ pc = "build"
    /\ subcommand = "link"
    /\ \E res \in {"None", "raise"} :
          /\ calls' = Append(calls, Call("build", NoArg, res))
          /\ IF res = "raise"
             THEN /\ caught' = Raised("build")
                  /\ pc' = "rollback"
                  /\ UNCHANGED <<error, exit_code>>
             ELSE /\ Return
                  /\ UNCHANGED caught
    /\ UNCHANGED <<inputs, extra_args, results, rolled, ans, exit_msg>>

\* one iteration of: for arg in self.extra_args: unlink_package(arg, ...)
Link_rollback ==
    /\ pc = "rollback"
    /\ subcommand = "link"
    /\ rolled < Len(extra_args)
    /\ \E res \in {"True", "False", "raise"} :
          /\ calls' = Append(calls, Call("unlink_package",
                                         extra_args[rolled + 1], res))
          /\ IF res = "raise"
             THEN /\ Propagate(Raised("unlink_package"))
                  /\ UNCHANGED rolled
             ELSE /\ rolled' = rolled + 1
                  /\ UNCHANGED <<pc, error, exit_code>>
    /\ UNCHANGED <<inputs, extra_args, results, ans, caught, exit_msg>>

\* raise e
Link_reraise ==
    /\ pc = "rollback"
    /\ subcommand = "link"
    /\ rolled = Len(extra_args)
    /\ Propagate(caught)
    /\ UNCHANGED <<inputs, extra_args, results, rolled, ans, caught, calls,
                   exit_msg>>

\* ------------------------------------------- UnlinkLabExtensionApp.start
Unlink_args ==
    /\ pc = "start"
    /\ subcommand = "unlink"
    /\ extra_args' = or_cwd(extra_args)
    /\ pc' = "loop"
    /\ UNCHANGED <<inputs, results, rolled, ans, caught, calls, error,
                   exit_code, exit_msg>>

\* a lazy any(...) that stops at the first true value
Unlink_call_lazy ==
    /\ pc = "loop"
    /\ subcommand = "unlink"
    /\ Pending
    /\ IF any(results)
       THEN /\ results' = results \o [j \in 1..(Len(extra_args) - Len(results))
                                        |-> "False"]
            /\ UNCHANGED <<calls, pc, error, exit_code>>
       ELSE \E res \in {"True", "False", "raise"} :
              /\ calls' = Append(calls, Call("unlink_package", NextArg, res))
              /\ IF res = "raise"
                 THEN /\ Propagate(Raised("unlink_package"))
                      /\ UNCHANGED results
                 ELSE /\ results' = Append(results, res)
                      /\ UNCHANGED <<pc, error, exit_code>>
    /\ UNCHANGED <<inputs, extra_args, rolled, ans, caught, exit_msg>>

\* a comprehension that goes on to the next identifier after a failure
Unlink_call_continue ==
    /\ pc = "loop"
    /\ subcommand = "unlink"
    /\ Pending
    /\ \E res \in {"True", "False", "raise"} :
          /\ calls' = Append(calls, Call("unlink_package", NextArg, res))
          /\ results' = Append(results, IF res = "raise" THEN "False" ELSE res)
          /\ UNCHANGED <<pc, error, exit_code>>
    /\ UNCHANGED <<inputs, extra_args, rolled, ans, caught, exit_msg>>

\* one element of [unlink_package(arg, ...) for arg in self.extra_args]
Unlink_call ==
    /\ pc = "loop"
    /\ subcommand = "unlink"
    /\ Pending
    /\ \E res \in {"True", "False", "raise"} :
          /\ calls' = Append(calls, Call("unlink_package", NextArg, res))
          /\ IF res = "raise"
             THEN /\ Propagate(Raised("unlink_package"))
                  /\ UNCHANGED results
             ELSE /\ results' = Append(results, res)
                  /\ UNCHANGED <<pc, error, exit_code>>
    /\ UNCHANGED <<inputs, extra_args, rolled, ans, caught, exit_msg>>

\* a build gate that forgets `ans`
Unlink_if_build_always ==
    /\ pc = "loop"
    /\ subcommand = "unlink"
    /\ ~Pending
    /\ ans' = any(results)
    /\ IF should_build
       THEN /\ pc' = "build"
            /\ UNCHANGED <<error, exit_code>>
       ELSE Return
    /\ UNCHANGED <<inputs, extra_args, results, rolled, caught, calls,
                   exit_msg>>

\* ans = any([...]);  if ans and self.should_build:
Unlink_if_build ==
    /\ pc = "loop"
    /\ subcommand = "unlink"
    /\ ~Pending
    /\ ans' = any(results)
    /\ IF ans' /\ should_build
       THEN /\ pc' = "build"
            /\ UNCHANGED <<error, exit_code>>
       ELSE Return
    /\ UNCHANGED <<inputs, extra_args, results, rolled, caught, calls,
                   exit_msg>>

\* build(...)
Unlink_build ==
    /\ pc = "build"
    /\ subcommand = "unlink"
    /\ \E res \in {"None", "raise"} :
          /\ calls' = Append(calls, Call("build", NoArg, res))
          /\ IF res = "raise"
             THEN Propagate(Raised("build"))
             ELSE Return
    /\ UNCHANGED <<inputs, extra_args, results, rolled, ans, caught, exit_msg>>

\* ---------------------------------------- UninstallLabExtensionApp.start
Uninstall_args ==
    /\ pc = "start"
    /\ subcommand = "uninstall"
    /\ extra_args' = or_cwd(extra_args)
    /\ pc' = "loop"
    /\ UNCHANGED <<inputs, results, rolled, ans, caught, calls, error,
                   exit_code, exit_msg>>

\* one element of [uninstall_extension(arg, ...) for arg in self.extra_args]
Uninstall_call ==
    /\ pc = "loop"
    /\ subcommand = "uninstall"
    /\ Pending
    /\ \E res \in {"True", "False", "raise"} :
          /\ calls' = Append(calls, Call("uninstall_extension", NextArg, res))
          /\ IF res = "raise"
             THEN /\ Propagate(Raised("uninstall_extension"))
                  /\ UNCHANGED results
             ELSE /\ results' = Append(results, res)
                  /\ UNCHANGED <<pc, error, exit_code>>
    /\ UNCHANGED <<inputs, extra_args, rolled, ans, caught, exit_msg>>

\* ans = any([...]);  if ans and self.should_build:
Uninstall_if_build ==
    /\ pc = "loop"
    /\ subcommand = "uninstall"
    /\ ~Pending
    /\ ans' = any(results)
    /\ IF ans' /\ should_build
       THEN /\ pc' = "build"
            /\ UNCHANGED <<error, exit_code>>
       ELSE Return
    /\ UNCHANGED <<inputs, extra_args, results, rolled, caught, calls,
                   exit_msg>>

\* build(...)
Uninstall_build ==
    /\ pc = "build"
    /\ subcommand = "uninstall"
    /\ \E res \in {"None", "raise"} :
          /\ calls' = Append(calls, Call("build", NoArg, res))
          /\ IF res = "raise"
             THEN Propagate(Raised("build"))
             ELSE Return
    /\ UNCHANGED <<inputs, extra_args, results, rolled, ans, caught, exit_msg>>

\* -------------------------------------------- ListLabExtensionsApp.start
\* a list command that also builds
List_start_build ==
    /\ pc = "start"
    /\ subcommand = "list"
    /\ \E res \in {"None", "raise"} :
          /\ calls' = IF should_build /\ res = "None"
                      THEN calls \o <<Call("list_extensions", NoArg, res),
                                      Call("build", NoArg, "None")>>
                      ELSE Append(calls, Call("list_extensions", NoArg, res))
          /\ IF res = "raise"
             THEN Propagate(Raised("list_extensions"))
             ELSE Return
    /\ UNCHANGED <<inputs, extra_args, results, rolled, ans, caught, exit_msg>>

\* list_extensions(self.app_dir, logger=self.log)
List_start ==
    /\ pc = "start"
    /\ subcommand = "list"
    /\ \E res \in {"None", "raise"} :
          /\ calls' = Append(calls, Call("list_extensions", NoArg, res))
          /\ IF res = "raise"
             THEN Propagate(Raised("list_extensions"))
             ELSE Return
    /\ UNCHANGED <<inputs, extra_args, results, rolled, ans, caught, exit_msg>>

\* ------------------------------------------ EnableLabExtensionsApp.start
\* one element of [enable_extension(arg, ...) for arg in self.extra_args]
Enable_call ==
    /\ pc = "start"
    /\ subcommand = "enable"
    /\ Pending
    /\ \E res \in {"None", "raise"} :
          /\ calls' = Append(calls, Call("enable_extension", NextArg, res))
          /\ IF res = "raise"
             THEN /\ Propagate(Raised("enable_extension"))
                  /\ UNCHANGED results
             ELSE /\ results' = Append(results, res)
                  /\ UNCHANGED <<pc, error, exit_code>>
    /\ UNCHANGED <<inputs, extra_args, rolled, ans, caught, exit_msg>>

\* the comprehension is complete and start() returns
Enable_return ==
    /\ pc = "start"
    /\ subcommand = "enable"
    /\ ~Pending
    /\ Return
    /\ UNCHANGED <<inputs, extra_args, results, rolled, ans, caught, calls,
                   exit_msg>>

\* ----------------------------------------- DisableLabExtensionsApp.start
\* one element of [disable_extension(arg, ...) for arg in self.extra_args]
Disable_call ==
    /\ pc = "start"
    /\ subcommand = "disable"
    /\ Pending
    /\ \E res \in {"None", "raise"} :
          /\ calls' = Append(calls, Call("disable_extension", NextArg, res))
          /\ IF res = "raise"
             THEN /\ Propagate(Raised("disable_extension"))
                  /\ UNCHANGED results
             ELSE /\ results' = Append(results, res)
                  /\ UNCHANGED <<pc, error, exit_code>>
    /\ UNCHANGED <<inputs, extra_args, rolled, ans, caught, exit_msg>>

\* the comprehension is complete and start() returns
Disable_return ==
    /\ pc = "start"
    /\ subcommand = "disable"
    /\ ~Pending
    /\ Return
    /\ UNCHANGED <<inputs, extra_args, results, rolled, ans, caught, calls,
                   exit_msg>>

\* ------------------------------------------------------------ specification
Next ==
    \/ LabExtensionApp_start_subapp
    \/ LabExtensionApp_start_exit
    \/ Install_args
    \/ Install_call
    \/ Install_if_build
    \/ Install_build
    \/ Install_rollback
    \/ Install_reraise
    \/ Link_args
    \/ Link_call
    \/ Link_if_build
    \/ Link_build
    \/ Link_rollback
    \/ Link_reraise
    \/ Unlink_args
    \/ Unlink_call
    \/ Unlink_if_build
    \/ Unlink_build
    \/ Uninstall_args
    \/ Uninstall_call
    \/ Uninstall_if_build
    \/ Uninstall_build
    \/ List_start
    \/ Enable_call
    \/ Enable_return
    \/ Disable_call
    \/ Disable_return

Spec == Init /\ [][Next]_vars

TypeOK ==
    /\ pc \in {"launch", "start", "loop", "build", "rollback", "done", "failed"}
    /\ exit_code \in {-1, 0, 1}
    /\ extra_args \in ArgLists \cup {<<Cwd>>}
    /\ should_build \in BOOLEAN

\* ------------------------------------------------- vocabulary of the claims
Terminal == pc \in {"done", "failed"}

WithRollback == {"install", "link"}
ChangeGated == {"unlink", "uninstall"}
NeverBuilding == {"enable", "disable", "list"}

\* the function each subcommand calls per identifier, and for rollback
PerIdFn ==
    [install |-> "install_extension", link |-> "link_package",
     unlink |-> "unlink_package", uninstall |-> "uninstall_extension",
     enable |-> "enable_extension", disable |-> "disable_extension",
     list |-> "nothing"]

RollbackFn ==
    [install |-> "uninstall_extension", link |-> "unlink_package"]

CallsTo(fn) == {j \in DOMAIN calls : calls[j].fn = fn}

Failed(fn) == {j \in CallsTo(fn) : calls[j].result = "raise"}

\* the identifiers passed to fn, in call order
ArgsTo(fn) ==
    LET sel == SelectSeq(calls, LAMBDA c : c.fn = fn)
    IN  [j \in DOMAIN sel |-> sel[j].arg]

IsPrefix(s, t) ==
    /\ Len(s) <= Len(t)
    /\ \A j \in DOMAIN s : s[j] = t[j]

ExcOf(j) == [raised_by |-> calls[j].fn, call |-> j]

BuildFailed == Failed("build") # {}

\* the identifier list after the default is applied
EffectiveArgs == IF argv = <<>> THEN <<Cwd>> ELSE argv

\* ------------------------------------------------------------------ C1
\* C1 as stated: for install / link, once the build call has failed and the
\* run is over, the rollback function has been called for every identifier,
\* exactly once each, in the order of installation, and never before the
\* failed build call.
C1_Original ==
    (subcommand \in WithRollback /\ BuildFailed /\ Terminal) =>
        /\ ArgsTo(RollbackFn[subcommand]) = extra_args
        /\ \A r \in CallsTo(RollbackFn[subcommand]) :
              \E b \in Failed("build") : b < r

\* C1 (amended): for install / link with a failed build call, the rollback
\* calls are made only after the build call has failed, for the identifiers
\* in the order in which they were installed / linked, each at most once;
\* the rollback stops at the first rollback call that itself fails, and when
\* no rollback call fails every identifier has been rolled back exactly once
\* by the end of the run.
C1_RollbackInOrder ==
    subcommand \in WithRollback =>
        LET rb == RollbackFn[subcommand] IN
        /\ \A r \in CallsTo(rb) : \E b \in Failed("build") : b < r
        /\ BuildFailed => ArgsTo(PerIdFn[subcommand]) = extra_args
        /\ IsPrefix(ArgsTo(rb), extra_args)
        /\ \A r \in Failed(rb) : r = Len(calls) /\ pc = "failed"
        /\ (BuildFailed /\ Terminal /\ Failed(rb) = {}) =>
              ArgsTo(rb) = extra_args

C1_Witness ==
    /\ subcommand = "install"
    /\ argv = <<"extA", "extB">>
    /\ pc = "failed"
    /\ BuildFailed
    /\ ArgsTo("uninstall_extension") = <<"extA", "extB">>

\* ------------------------------------------------------------------ C2
\* C2 as stated: for install / link, whenever the build call has failed the
\* run ends in failure and the error reported is the build call's error,
\* after all rollback calls.
C2_Original ==
    (subcommand \in WithRollback /\ BuildFailed /\ Terminal) =>
        /\ pc = "failed"
        /\ \E b \in Failed("build") : error = ExcOf(b)

\* C2 (amended): for install / link, whenever the build call has failed the
\* run never ends in success; it ends in failure reporting the build call's
\* error after every identifier has been rolled back, unless a rollback
\* call fails, in which case the run ends at once reporting that rollback
\* call's error.
C2_BuildErrorReported ==
    (subcommand \in WithRollback /\ BuildFailed) =>
        LET rb == RollbackFn[subcommand] IN
        /\ pc \in {"rollback", "failed"}
        /\ pc = "failed" =>
              \/ /\ \E b \in Failed("build") : error = ExcOf(b)
                 /\ Failed(rb) = {}
                 /\ ArgsTo(rb) = extra_args
              \/ /\ Failed(rb) = {Len(calls)}
                 /\ error = ExcOf(Len(calls))

C2_Witness ==
    /\ subcommand = "link"
    /\ argv = <<"extA", "extB">>
    /\ pc = "failed"
    /\ error.raised_by = "build"
    /\ Cardinality(CallsTo("unlink_package")) = 2

\* ------------------------------------------------------------------ C3
AnyChanged ==
    \E j \in CallsTo(PerIdFn[subcommand]) : calls[j].result = "True"

\* C3 as stated: for unlink / uninstall, at the end of the run build has been
\* called if and only if should_build is true and some per-identifier call
\* returned changed = true; it is called at most once and after all the
\* per-identifier calls.
C3_Original ==
    (subcommand \in ChangeGated /\ Terminal) =>
        /\ (CallsTo("build") # {}) <=> (should_build /\ AnyChanged)
        /\ Cardinality(CallsTo("build")) <= 1
        /\ \A b \in CallsTo("build") : b = Len(extra_args) + 1

\* C3 (amended): for unlink / uninstall, at the end of the run build has been
\* called if and only if should_build is true, no per-identifier call failed
\* and at least one of them returned changed = true; when it is called it is
\* called exactly once and only after all per-identifier calls have finished.
C3_BuildIffChanged ==
    subcommand \in ChangeGated =>
        /\ Terminal =>
              ((CallsTo("build") # {}) <=>
                  (/\ should_build
                   /\ AnyChanged
                   /\ Failed(PerIdFn[subcommand]) = {}))
        /\ Cardinality(CallsTo("build")) <= 1
        /\ \A b \in CallsTo("build") :
              /\ b = Len(calls)
              /\ ArgsTo(PerIdFn[subcommand]) = extra_args
              /\ \A j \in 1..(b - 1) : calls[j].fn = PerIdFn[subcommand]

C3_Witness ==
    /\ subcommand = "unlink"
    /\ argv = <<"extA", "extB">>
    /\ pc = "done"
    /\ calls[1].result = "False"
    /\ calls[2].result = "True"
    /\ Len(calls) = 3
    /\ calls[3].fn = "build"

\* ------------------------------------------------------------------ C4
AllPerIdReturned ==
    /\ pc \in {"rollback", "done", "failed"}
    /\ Len(results) = Len(extra_args)

\* C4: with --no-build given, should_build is false and install, link, unlink
\* and uninstall never call build; with build enabled, which is the default
\* of these four, install and link call build exactly once, right after the
\* last per-identifier call, whenever all per-identifier calls have returned.
C4_NoBuildFlag ==
    subcommand \in (WithRollback \cup ChangeGated) =>
        /\ build_config = "False" => (~should_build /\ CallsTo("build") = {})
        /\ build_config = "unset" => should_build
        /\ (subcommand \in WithRollback /\ should_build /\ AllPerIdReturned)
              => CallsTo("build") = {Len(extra_args) + 1}

C4_Witness ==
    /\ subcommand = "install"
    /\ build_config = "False"
    /\ argv = <<"extA", "extB">>
    /\ pc = "done"
    /\ Len(calls) = 2

\* ------------------------------------------------------------------ C5
\* C5: enable, disable and list never call build, whatever should_build,
\* should_clean and the identifier list are; a finished list run has made
\* exactly one call, to list_extensions, and enable / disable call nothing
\* but their own function.
C5_NeverBuild ==
    subcommand \in NeverBuilding =>
        /\ CallsTo("build") = {}
        /\ subcommand = "list" =>
              /\ \A j \in DOMAIN calls : calls[j].fn = "list_extensions"
              /\ Len(calls) <= 1
              /\ Terminal => Len(calls) = 1
        /\ subcommand # "list" =>
              \A j \in DOMAIN calls : calls[j].fn = PerIdFn[subcommand]

C5_Witness ==
    /\ subcommand = "list"
    /\ should_build
    /\ should_clean
    /\ argv = <<"extA">>
    /\ pc = "done"
    /\ Len(calls) = 1

\* ------------------------------------------------------------------ C6
\* C6: for install, link, unlink and uninstall the identifier list used for
\* the per-identifier calls and for the rollback is <<cwd>> when no
\* identifier was given and the given list otherwise; enable and disable use
\* the given list as it is and make no call when it is empty.
C6_DefaultCwd ==
    /\ (subcommand \in (WithRollback \cup ChangeGated)
            /\ pc \notin {"launch", "start"}) =>
          /\ extra_args = EffectiveArgs
          /\ IsPrefix(ArgsTo(PerIdFn[subcommand]), EffectiveArgs)
          /\ (Terminal /\ error = NoError) =>
                ArgsTo(PerIdFn[subcommand]) = EffectiveArgs
    /\ subcommand \in WithRollback =>
          /\ IsPrefix(ArgsTo(RollbackFn[subcommand]), EffectiveArgs)
          /\ (Terminal /\ error.raised_by = "build") =>
                ArgsTo(RollbackFn[subcommand]) = EffectiveArgs
    /\ subcommand \in {"enable", "disable"} =>
          /\ extra_args = argv
          /\ IsPrefix(ArgsTo(PerIdFn[subcommand]), argv)
          /\ argv = <<>> => calls = <<>>

C6_Witness ==
    /\ subcommand = "install"
    /\ argv = <<>>
    /\ pc = "failed"
    /\ ArgsTo("install_extension") = <<Cwd>>
    /\ ArgsTo("uninstall_extension") = <<Cwd>>

\* ------------------------------------------------------------------ C7
\* C7: for unlink, uninstall, enable and disable, a per-identifier call that
\* fails is the last call of the run: the run is over with that call's error,
\* no later identifier is tried and build is not called.
C7_FirstFailurePropagates ==
    subcommand \in (ChangeGated \cup {"enable", "disable"}) =>
        \A j \in Failed(PerIdFn[subcommand]) :
            /\ j = Len(calls)
            /\ pc = "failed"
            /\ error = ExcOf(j)
            /\ CallsTo("build") = {}
            /\ ArgsTo(PerIdFn[subcommand]) = SubSeq(extra_args, 1, j)

C7_Witness ==
    /\ subcommand = "uninstall"
    /\ should_build
    /\ argv = <<"extA", "extB">>
    /\ calls # <<>>
    /\ calls[1].result = "raise"
    /\ pc = "failed"

\* ------------------------------------------------------------------ C8
\* C8: a run without a subcommand makes no call to .commands and ends in
\* failure with exit status 1 and a message that lists the seven subcommand
\* names disable, enable, install, link, list, uninstall, unlink.
C8_NoSubcommand ==
    subcommand = NoSubcommand =>
        /\ calls = <<>>
        /\ pc \in {"launch", "failed"}
        /\ pc = "failed" =>
              /\ exit_code = 1
              /\ exit_msg = <<"disable", "enable", "install", "link", "list",
                              "uninstall", "unlink">>

C8_Witness ==
    /\ subcommand = NoSubcommand
    /\ pc = "failed"
    /\ Len(exit_msg) = 7

\* ------------------------------------------------------------------ C9
\* C9: for unlink / uninstall, while no per-identifier call fails the
\* function is called once per identifier in argument order, also after an
\* earlier call has returned changed = true; once the comprehension is over
\* every identifier has had its call.
C9_EveryCallMade ==
    (subcommand \in ChangeGated /\ Failed(PerIdFn[subcommand]) = {}) =>
        /\ IsPrefix(ArgsTo(PerIdFn[subcommand]), extra_args)
        /\ Len(results) = Len(ArgsTo(PerIdFn[subcommand]))
        /\ pc \in {"build", "done", "failed"} =>
              ArgsTo(PerIdFn[subcommand]) = extra_args

C9_Witness ==
    /\ subcommand = "unlink"
    /\ argv = <<"extA", "extB">>
    /\ pc = "done"
    /\ Len(calls) >= 2
    /\ calls[1].result = "True"
    /\ calls[2].fn = "unlink_package"
    /\ calls[2].arg = "extB"

\* ------------------------------------------------------------------ C10
\* C10: for install / link, a per-identifier call that fails is the last call
\* of the run: the run is over with that call's error, build is not called,
\* no later identifier is tried and nothing is rolled back; rollback calls
\* exist only in runs whose build call has failed.
C10_NoRollbackWithoutBuild ==
    subcommand \in WithRollback =>
        /\ \A j \in Failed(PerIdFn[subcommand]) :
              /\ j = Len(calls)
              /\ pc = "failed"
              /\ error = ExcOf(j)
              /\ CallsTo("build") = {}
              /\ CallsTo(RollbackFn[subcommand]) = {}
              /\ ArgsTo(PerIdFn[subcommand]) = SubSeq(extra_args, 1, j)
        /\ CallsTo(RollbackFn[subcommand]) # {} => BuildFailed

C10_Witness ==
    /\ subcommand = "install"
    /\ should_build
    /\ argv = <<"extA", "extB">>
    /\ Len(calls) = 2
    /\ calls[1].result = "None"
    /\ calls[2].result = "raise"
    /\ pc = "failed"
====
